---- MODULE Spec2Model ----
(***************************************************************************)
(* TransductionDataset (core/dataset/base_dataset.py): the processed       *)
(* directory as a map from file name to its lines, one initialization of   *)
(* the dataset object as the steps of __init__, and id_to_token.           *)
(*                                                                         *)
(* A file name is the tuple of its dot-separated segments, so that         *)
(* <<"train", "pt">> is train.pt.  Every write of the program appends one  *)
(* non-empty line, so a file exists exactly when it holds a line: an       *)
(* absent file is the empty sequence.                                      *)
(***************************************************************************)
EXTENDS Integers, Sequences, FiniteSets, TLC

\* Longest raw corpus, in data lines (the header not counted).
MaxLines == 2
\* Most cells (batch * seq_len) of an index tensor handed to id_to_token.
MaxCells == 4

---------------------------------------------------------------------------
(* Lines of the raw corpus: three tab-separated columns of tokens.         *)

Line(s, a, t) == [source |-> s, annotation |-> a, target |-> t]

Header == Line(<<"source">>, <<"annotation">>, <<"target">>)

LineSet ==
  { Line(<<"a">>, <<"t">>, <<"A">>),
    Line(<<"b">>, <<"t">>, <<"B">>),
    Line(<<"a", "b">>, <<"t">>, <<"B", "a">>) }

Columns == {"source", "annotation", "target"}

SeqsUpTo(S, n) == UNION { [1..k -> S] : k \in 0..n }

\* The raw corpora: a header line, then up to MaxLines data lines.
RawCorpora == { <<Header>> \o d : d \in SeqsUpTo(LineSet, MaxLines) }

---------------------------------------------------------------------------
(* Configuration.                                                          *)

Path(name) == name \o <<"pt">>

SplitsChoices ==
  { << [name |-> <<"train">>, weight |-> 80],
       [name |-> <<"val">>,   weight |-> 10],
       [name |-> <<"test">>,  weight |-> 10] >>,
    << [name |-> <<"train">>, weight |-> 100],
       [name |-> <<"val">>,   weight |-> 0],
       [name |-> <<"test">>,  weight |-> 0] >> }

\* dataset.withholding when the key is present: a list of patterns.
WithholdingChoices == { <<>>, <<"b">>, <<"a", "b">> }

\* dataset.tracking when the key is present: name -> pattern, in key order.
TrackingChoices ==
  { << [name |-> <<"trk">>, pattern |-> "a"],
       [name |-> <<"aux">>, pattern |-> "b"] >>,
    << [name |-> <<"gen">>, pattern |-> "b"] >>,
    << [name |-> <<"train", "x">>, pattern |-> "b"] >> }

TransformFields == {"source", "target"}

\* The configuration is read-only and each of its parts is read by one
\* function alone, so cfg holds the parts read so far: overwrite from
\* __init__ on, splits and withholding from _create_regular_splits on,
\* tracking from _create_tracking_splits on, transform_field from
\* _create_iterators on.  keys are the optional keys found present.
NoConfig ==
  [ keys |-> {}, splits |-> <<>>, withholding |-> <<>>, tracking |-> <<>>,
    overwrite |-> FALSE, transform_field |-> "" ]

\* The 'withholding' key absent, or present with one of the lists.
WithWithholding(c, present, w) ==
  IF present
    THEN [c EXCEPT !.keys = @ \cup {"withholding"}, !.withholding = w]
    ELSE c

\* The 'tracking' key absent, or present with one of the mappings.
WithTracking(c, present, t) ==
  IF present
    THEN [c EXCEPT !.keys = @ \cup {"tracking"}, !.tracking = t]
    ELSE c

GenPath == Path(<<"gen">>)

InSampleSplits == {"train", "test", "val"}

AllFiles ==
  {GenPath}
    \cup UNION { { Path(s[i].name) : i \in 1..Len(s) } : s \in SplitsChoices }
    \cup UNION { { Path(t[i].name) : i \in 1..Len(t) } : t \in TrackingChoices }

NoFiles == [f \in AllFiles |-> <<>>]

---------------------------------------------------------------------------
VARIABLES
  raw,             \* the raw corpus file: header, then the data lines
  dirExists,       \* os.path.exists(self._processed_path)
  files,           \* the processed directory: file name -> its lines
  cfg,             \* the configuration of the running initialization
  pc,              \* position in __init__
  iterators,       \* self._iterators: split -> the dataset behind its iterator
  in_sample_data,  \* self._in_sample_data: in-sample file -> its dataset
  source_vocab,    \* self.source_field.vocab.itos
  target_vocab,    \* self.target_field.vocab.itos
  idx_tensor,      \* id_to_token: the index tensor, a sequence of rows
  vocab_str,       \* id_to_token: 'source' or 'target'
  show_special,    \* id_to_token: the flag
  batch_strings    \* id_to_token: the returned rows

vars ==
  << raw, dirExists, files, cfg, pc, iterators, in_sample_data, source_vocab,
     target_vocab, idx_tensor, vocab_str, show_special, batch_strings >>

decodeVars == << idx_tensor, vocab_str, show_special, batch_strings >>

---------------------------------------------------------------------------
(* Pattern matching: a pattern is a literal, found when it occurs in the   *)
(* text of the line (case-sensitively, before any lowercasing).            *)

Tokens(line) ==
  UNION { { line[c][i] : i \in 1..Len(line[c]) } : c \in Columns }

Search(pattern, line) == pattern \in Tokens(line)

\* re.compile('|'.join(withholding)).search(line): the empty join is the
\* empty regex, which is found in every line.
ToWithhold(withholding, line) ==
  \/ withholding = <<>>
  \/ \E i \in 1..Len(withholding) : Search(withholding[i], line)

\* The data lines: next(raw_data) skips the first line of the raw file.
DataLines(r) == Tail(r)

---------------------------------------------------------------------------
(* The processed directory.                                                *)

Exists(fs, f) == fs[f] # <<>>

Remove(fs, paths) == [f \in DOMAIN fs |-> IF f \in paths THEN <<>> ELSE fs[f]]

AppendTo(fs, f, line) == [fs EXCEPT ![f] = Append(@, line)]

SplitPaths(c) == { Path(c.splits[i].name) : i \in 1..Len(c.splits) }

\* np.random.choice(s_paths, p = s_probs) draws a path of positive weight.
Drawable(c) ==
  { Path(c.splits[i].name) : i \in { j \in 1..Len(c.splits) : c.splits[j].weight > 0 } }

\* Route with only the first withholding pattern compiled.
RouteFirstPattern(c, line, drawn) ==
  IF "withholding" \in c.keys
       /\ (c.withholding = <<>> \/ Search(c.withholding[1], line))
    THEN GenPath
    ELSE drawn

\* The file one data line is appended to by the loop of _create_regular_splits.
Route(c, line, drawn) ==
  IF "withholding" \in c.keys /\ ToWithhold(c.withholding, line)
    THEN GenPath
    ELSE drawn

RECURSIVE WriteRegular(_, _, _, _)
WriteRegular(fs, lines, draws, c) ==
  IF lines = <<>>
    THEN fs
    ELSE WriteRegular(AppendTo(fs, Route(c, Head(lines), Head(draws)), Head(lines)),
                      Tail(lines), Tail(draws), c)

\* The files _create_regular_splits removes before it writes.
RegularRemoved(c) ==
  (IF "withholding" \in c.keys THEN {GenPath} ELSE {}) \cup SplitPaths(c)

RegularSplits(fs, r, c, draws) ==
  WriteRegular(Remove(fs, RegularRemoved(c)), DataLines(r), draws, c)

TrackingPaths(c) == { Path(c.tracking[i].name) : i \in 1..Len(c.tracking) }

RECURSIVE WritePatterns(_, _, _, _)
WritePatterns(fs, line, tracking, i) ==
  IF i > Len(tracking)
    THEN fs
    ELSE WritePatterns(
           IF Search(tracking[i].pattern, line)
             THEN AppendTo(fs, Path(tracking[i].name), line)
             ELSE fs,
           line, tracking, i + 1)

RECURSIVE WriteTracking(_, _, _)
WriteTracking(fs, lines, tracking) ==
  IF lines = <<>>
    THEN fs
    ELSE WriteTracking(WritePatterns(fs, Head(lines), tracking, 1), Tail(lines), tracking)

\* _create_tracking_splits with the removal of the old files left out.
TrackingRemovedNone(c) == {}

\* The files _create_tracking_splits removes before it writes.
TrackingRemoved(c) == TrackingPaths(c)

TrackingSplits(fs, r, c) ==
  IF "tracking" \in c.keys
    THEN WriteTracking(Remove(fs, TrackingRemoved(c)), DataLines(r), c.tracking)
    ELSE fs

---------------------------------------------------------------------------
(* Datasets, iterators and vocabularies.                                   *)

\* Field(lower = True): every token is lowercased when an example is built.
Lower(tok) ==
  CASE tok = "A" -> "a"
    [] tok = "B" -> "b"
    [] OTHER -> tok

Example(line) ==
  [c \in Columns |-> [i \in 1..Len(line[c]) |-> Lower(line[c][i])]]

\* TabularDataset(path, format = 'tsv', skip_header = True): the first line
\* of the file is taken for a header and dropped.
Dataset(lines) ==
  IF lines = <<>>
    THEN <<>>
    ELSE [i \in 1..(Len(lines) - 1) |-> Example(lines[i + 1])]

\* os.listdir(self._processed_path), kept where file.endswith('.pt').
PtFiles(fs) == { f \in DOMAIN fs : Exists(fs, f) /\ f[Len(f)] = "pt" }

\* file.split('.')[0]
SplitOf(f) == f[1]

InSampleFiles(fs) == { f \in PtFiles(fs) : SplitOf(f) \in InSampleSplits }

\* The columns read through one field: datafields.
FieldColumns(field, c) ==
  {field} \cup (IF c.transform_field = field THEN {"annotation"} ELSE {})

Specials == <<"<unk>", "<pad>", "<sos>", "<eos>">>

\* The lowercased tokens, in the order sorted() gives them.
Alphabetical == <<"a", "b", "t">>

Rank(tok) == CHOOSE i \in 1..Len(Alphabetical) : Alphabetical[i] = tok

\* The Counter build_vocab fills: occurrences of tok in the columns cols of
\* every example of the datasets.
Count(data, cols, tok) ==
  Cardinality(
    UNION { UNION { UNION {
      { <<f, i, c, k>> : k \in { k \in 1..Len(data[f][i][c]) : data[f][i][c][k] = tok } }
        : c \in cols } : i \in 1..Len(data[f]) } : f \in DOMAIN data })

\* field.build_vocab(*datasets).itos: the special tokens, then the counted
\* tokens by falling frequency, alphabetically among equals.
BuildItos(data, cols) ==
  LET counter == [i \in 1..Len(Alphabetical) |-> Count(data, cols, Alphabetical[i])]
      toks == { Alphabetical[i] : i \in { j \in 1..Len(Alphabetical) : counter[j] > 0 } }
      before(x, y) ==
        \/ counter[Rank(x)] > counter[Rank(y)]
        \/ counter[Rank(x)] = counter[Rank(y)] /\ Rank(x) < Rank(y)
      sorted ==
        CHOOSE s \in [1..Cardinality(toks) -> toks] :
          \A i, j \in 1..Cardinality(toks) : i < j => before(s[i], s[j])
  IN Specials \o sorted

\* vocab.stoi[tok]: a defaultdict whose default is the index of <unk>.
Stoi(itos, tok) ==
  IF \E i \in 1..Len(itos) : itos[i] = tok
    THEN (CHOOSE i \in 1..Len(itos) : itos[i] = tok) - 1
    ELSE 0

---------------------------------------------------------------------------
(* id_to_token.                                                            *)

Hidden == {"<sos>", "<eos>", "<pad>"}

\* Cell with <pad> missing from the list of special tokens.
CellKeepsPad(itos, idx, special) ==
  LET string == itos[idx + 1]
  IN IF string \notin {"<sos>", "<eos>"} \/ special THEN <<string>> ELSE <<>>

\* One cell of outputs: <<>> is None, <<s>> the string s.
Cell(itos, idx, special) ==
  LET string == itos[idx + 1]
  IN IF string \notin Hidden \/ special THEN <<string>> ELSE <<>>

\* r[r != np.array(None)]: the cells that were set, in order.
RECURSIVE Compact(_)
Compact(cells) ==
  IF cells = <<>> THEN <<>> ELSE Head(cells) \o Compact(Tail(cells))

IdToTokenRows(tensor, itos, special) ==
  [r \in 1..Len(tensor) |->
     Compact([k \in 1..Len(tensor[r]) |-> Cell(itos, tensor[r][k], special)])]

\* The index tensors of shape [batch, seq_len] over the indices of itos.
Shapes == { sh \in (1..MaxCells) \X (1..MaxCells) : sh[1] * sh[2] <= MaxCells }

Tensors(itos, shape) == [1..shape[1] -> [1..shape[2] -> 0..(Len(itos) - 1)]]

---------------------------------------------------------------------------
(* One initialization of the dataset object.                               *)

Init ==
  /\ raw \in RawCorpora
  /\ dirExists = FALSE
  /\ files = NoFiles
  /\ cfg = NoConfig
  /\ pc = "init"
  /\ iterators = <<>>
  /\ in_sample_data = <<>>
  /\ source_vocab = <<>>
  /\ target_vocab = <<>>
  /\ idx_tensor = <<>>
  /\ vocab_str = "source"
  /\ show_special = FALSE
  /\ batch_strings = <<>>

\* __init__ up to the call of _create_iterators: a new object, the processed
\* directory made if missing, the raw data processed if it was missing or
\* overwrite is set.
Start(overwrite) ==
  /\ pc \in {"init", "done"}
  /\ cfg' = [NoConfig EXCEPT !.overwrite = overwrite]
  /\ dirExists' = TRUE
  /\ pc' = IF ~dirExists \/ overwrite THEN "regular" ELSE "iterators"
  /\ iterators' = <<>>
  /\ in_sample_data' = <<>>
  /\ source_vocab' = <<>>
  /\ target_vocab' = <<>>
  /\ UNCHANGED << raw, files, decodeVars >>

CreateRegularSplits ==
  /\ pc = "regular"
  /\ \E sp \in SplitsChoices, present \in BOOLEAN, w \in WithholdingChoices :
       LET c == WithWithholding([cfg EXCEPT !.splits = sp], present, w)
       IN /\ cfg' = c
          /\ \E draws \in [1..Len(DataLines(raw)) -> Drawable(c)] :
               files' = RegularSplits(files, raw, c, draws)
  /\ pc' = "tracking"
  /\ UNCHANGED << raw, dirExists, iterators, in_sample_data, source_vocab,
                  target_vocab, decodeVars >>

\* Returning from it, _process_raw_data has returned: pc = "processed".
CreateTrackingSplits ==
  /\ pc = "tracking"
  /\ \E present \in BOOLEAN, t \in TrackingChoices :
       LET c == WithTracking(cfg, present, t)
       IN /\ cfg' = c
          /\ files' = TrackingSplits(files, raw, c)
  /\ pc' = "processed"
  /\ UNCHANGED << raw, dirExists, iterators, in_sample_data, source_vocab,
                  target_vocab, decodeVars >>

\* self._iterators[split] = iterator: of the files of one split name, the one
\* os.listdir gives last stays.
CreateIterators ==
  /\ pc \in {"processed", "iterators"}
  /\ \E tf \in TransformFields : cfg' = [cfg EXCEPT !.transform_field = tf]
  /\ LET splits == { SplitOf(f) : f \in PtFiles(files) }
     IN \E last \in SUBSET PtFiles(files) :
          /\ \A s \in splits : Cardinality({ f \in last : SplitOf(f) = s }) = 1
          /\ iterators' =
               [s \in splits |-> Dataset(files[CHOOSE f \in last : SplitOf(f) = s])]
  /\ in_sample_data' = [f \in InSampleFiles(files) |-> Dataset(files[f])]
  /\ pc' = "vocab"
  /\ UNCHANGED << raw, dirExists, files, source_vocab, target_vocab, decodeVars >>

\* source_field.build_vocab(*self._in_sample_data), and the target's.
BuildVocab ==
  /\ pc = "vocab"
  /\ source_vocab' = BuildItos(in_sample_data, FieldColumns("source", cfg))
  /\ target_vocab' = BuildItos(in_sample_data, FieldColumns("target", cfg))
  /\ pc' = "done"
  /\ UNCHANGED << raw, dirExists, files, cfg, iterators, in_sample_data, decodeVars >>

Next ==
  \/ \E overwrite \in BOOLEAN : Start(overwrite)
  \/ CreateRegularSplits
  \/ CreateTrackingSplits
  \/ CreateIterators
  \/ BuildVocab

Spec == Init /\ [][Next]_vars

---------------------------------------------------------------------------
(* id_to_token on a built object.                                          *)

InitDecode ==
  /\ raw = <<Header>>
  /\ dirExists = TRUE
  /\ files = NoFiles
  /\ cfg = NoConfig
  /\ pc = "done"
  /\ iterators = <<>>
  /\ in_sample_data = <<>>
  /\ source_vocab = Specials \o <<"t", "a">>
  /\ target_vocab = Specials \o <<"b">>
  /\ idx_tensor = <<>>
  /\ vocab_str = "source"
  /\ show_special = FALSE
  /\ batch_strings = <<>>

\* One call; pc = "decoded" once it has returned.
IdToToken(tensor, vs, special) ==
  /\ pc' = "decoded"
  /\ idx_tensor' = tensor
  /\ vocab_str' = vs
  /\ show_special' = special
  /\ batch_strings' =
       IdToTokenRows(tensor, IF vs = "source" THEN source_vocab ELSE target_vocab,
                     special)
  /\ UNCHANGED << raw, dirExists, files, cfg, iterators, in_sample_data,
                  source_vocab, target_vocab >>

NextDecode ==
  /\ pc = "done"
  /\ \E vs \in {"source", "target"}, special \in BOOLEAN, shape \in Shapes :
       \E tensor \in Tensors(IF vs = "source" THEN source_vocab ELSE target_vocab, shape) :
         IdToToken(tensor, vs, special)

DecodeSpec == InitDecode /\ [][NextDecode]_vars

---------------------------------------------------------------------------
(* Properties.                                                             *)

CountIn(seq, x) == Cardinality({ i \in 1..Len(seq) : seq[i] = x })

RECURSIVE SumOver(_, _, _)
SumOver(fs, paths, x) ==
  IF paths = {}
    THEN 0
    ELSE LET f == CHOOSE g \in paths : TRUE
         IN CountIn(fs[f], x) + SumOver(fs, paths \ {f}, x)

RECURSIVE TotalLines(_, _)
TotalLines(fs, paths) ==
  IF paths = {}
    THEN 0
    ELSE LET f == CHOOSE g \in paths : TRUE
         IN Len(fs[f]) + TotalLines(fs, paths \ {f})

\* train.pt, val.pt, test.pt and gen.pt.
RegularFiles(c) == SplitPaths(c) \cup {GenPath}

\* The line matches at least one of the withholding patterns.
MatchesSome(patterns, line) ==
  \E i \in 1..Len(patterns) : patterns[i] \in Tokens(line)

Matching(lines, pattern) ==
  LET test(l) == pattern \in Tokens(l) IN SelectSeq(lines, test)

WithheldLines(lines, patterns) ==
  LET test(l) == MatchesSome(patterns, l) IN SelectSeq(lines, test)

\* C1: after _create_regular_splits, every data line is in exactly one of
\* train/val/test/gen, the header is in none, and their line counts sum to
\* the number of data lines.
C1_RegularSplitsPartitionCorpus ==
  pc = "tracking" =>
    /\ \A l \in LineSet :
         SumOver(files, RegularFiles(cfg), l) = CountIn(DataLines(raw), l)
    /\ SumOver(files, RegularFiles(cfg), Header) = 0
    /\ TotalLines(files, RegularFiles(cfg)) = Len(DataLines(raw))

\* The files a processing pass with configuration c removes and rewrites.
Regenerated(c) == RegularRemoved(c) \cup (IF "tracking" \in c.keys THEN TrackingRemoved(c) ELSE {})

\* C2: after a processing pass no file of a prior run is left: every file
\* of the processed directory is one this pass removed and regenerated.
C2_NoStaleFileAfterPass ==
  pc = "processed" => \A f \in AllFiles : Exists(files, f) => f \in Regenerated(cfg)

\* C3: a processing pass without the 'withholding' key writes no line to
\* gen.pt: across each of its two steps gen.pt is left as it was (or absent).
C3_NoGenWithoutWithholding ==
  [][ (pc \in {"regular", "tracking"} /\ "withholding" \notin cfg'.keys)
        => (files'[GenPath] = files[GenPath] \/ files'[GenPath] = <<>>) ]_vars

\* C4: with withholding patterns configured, gen.pt holds exactly the data
\* lines matching some pattern and no split file holds one of them; every
\* other data line is in exactly one split file and not in gen.pt.
C4_WithheldLinesGoToGen ==
  (pc = "tracking" /\ "withholding" \in cfg.keys /\ cfg.withholding # <<>>) =>
    /\ files[GenPath] = WithheldLines(DataLines(raw), cfg.withholding)
    /\ \A l \in LineSet :
         IF MatchesSome(cfg.withholding, l)
           THEN SumOver(files, SplitPaths(cfg), l) = 0
           ELSE /\ SumOver(files, SplitPaths(cfg), l) = CountIn(DataLines(raw), l)
                /\ CountIn(files[GenPath], l) = 0

\* One data line withheld into gen.pt and another drawn into a split file.
C4_Witness ==
  /\ pc = "tracking"
  /\ "withholding" \in cfg.keys
  /\ cfg.withholding = <<"b">>
  /\ Exists(files, GenPath)
  /\ \E f \in SplitPaths(cfg) : Exists(files, f)

\* C5: after _create_tracking_splits, the file of every configured tracking
\* name holds exactly the data lines matching its pattern, in corpus order.
C5_TrackingFilesHoldMatches ==
  (pc = "processed" /\ "tracking" \in cfg.keys) =>
    \A i \in 1..Len(cfg.tracking) :
      files[Path(cfg.tracking[i].name)] = Matching(DataLines(raw), cfg.tracking[i].pattern)

\* A line matching two tracking patterns is in both files.
C5_Witness ==
  /\ pc = "processed"
  /\ Len(cfg.tracking) = 2
  /\ \E l \in LineSet :
       /\ CountIn(files[Path(cfg.tracking[1].name)], l) > 0
       /\ CountIn(files[Path(cfg.tracking[2].name)], l) > 0
  /\ files[Path(cfg.tracking[1].name)] # files[Path(cfg.tracking[2].name)]

Decoded(itos, row) == [k \in 1..Len(row) |-> itos[row[k] + 1]]

NotSpecial(row) ==
  LET test(s) == s \notin {"<sos>", "<eos>", "<pad>"} IN SelectSeq(row, test)

\* C6: id_to_token returns one row per row of the tensor, in order; with
\* show_special = False each is the row's decoded tokens without <sos>,
\* <eos> and <pad>, order kept and no gaps; with show_special = True each is
\* the row's decoded tokens unchanged.
C6_IdToTokenFiltersSpecials ==
  pc = "decoded" =>
    LET itos == IF vocab_str = "source" THEN source_vocab ELSE target_vocab
    IN /\ Len(batch_strings) = Len(idx_tensor)
       /\ \A r \in 1..Len(idx_tensor) :
            batch_strings[r] =
              IF show_special
                THEN Decoded(itos, idx_tensor[r])
                ELSE NotSpecial(Decoded(itos, idx_tensor[r]))

\* Two rows, the first losing its <pad>, the second keeping <unk>.
C6_Witness ==
  /\ pc = "decoded"
  /\ ~show_special
  /\ Len(idx_tensor) = 2
  /\ Decoded(source_vocab, idx_tensor[1]) = <<"<pad>", "a">>
  /\ batch_strings = << <<"a">>, <<"t", "<unk>">> >>

\* The lowercased tokens of the lines of the files named.
TokensOf(fs, paths) ==
  UNION { UNION { { Lower(t) : t \in Tokens(fs[f][i]) } : i \in 1..Len(fs[f]) } : f \in paths }

InSamplePaths == { Path(<<s>>) : s \in InSampleSplits }

\* C7: a token that is in some split file but in none of train.pt, val.pt
\* and test.pt is no entry of the source or the target vocabulary and maps
\* to the index of <unk>.
C7_VocabularyFromInSampleOnly ==
  pc = "done" =>
    \A tok \in TokensOf(files, AllFiles) \ TokensOf(files, InSamplePaths) :
      /\ \A i \in 1..Len(source_vocab) : source_vocab[i] # tok
      /\ \A i \in 1..Len(target_vocab) : target_vocab[i] # tok
      /\ Stoi(source_vocab, tok) = Stoi(source_vocab, "<unk>")
      /\ Stoi(target_vocab, tok) = Stoi(target_vocab, "<unk>")

\* C8: _create_tracking_splits leaves train.pt, val.pt, test.pt and gen.pt
\* as _create_regular_splits wrote them.
C8_TrackingLeavesRegularSplits ==
  [][ pc = "tracking" => \A f \in RegularFiles(cfg) : files'[f] = files[f] ]_vars

\* C9: after a processing pass train.pt, val.pt and test.pt all exist.
C9_InSampleFilesAlwaysProduced ==
  pc \in {"tracking", "processed"} => \A f \in InSamplePaths : Exists(files, f)

\* C10: the dataset behind the iterator of every split file holds one
\* example for each line of the file.
C10_NoLineLostBeforeIterators ==
  pc = "vocab" =>
    \A f \in PtFiles(files) : Len(iterators[SplitOf(f)]) = Len(files[f])

====
